---- MODULE Spec2Model ----
(***************************************************************************)
(* iphoto.py: the timer-interval normalizer (timerinterval_to_datetime)    *)
(* and the IPhoto database model (__init__, albums, album_data, photos).   *)
(*                                                                         *)
(* Strings are sequences of tokens, so that substring tests and            *)
(* str.replace are computed, not assumed: the key "DateAsTimerIntervalGMT" *)
(* is <<"Date", "AsTimer", "Interval", "GMT">>.  No token is a prefix of   *)
(* another, so two token sequences are equal exactly when the strings are, *)
(* and "AsTimerInterval" / "OriginalPath" occur in a string exactly when   *)
(* their tokens occur in its token sequence.                               *)
(*                                                                         *)
(* A dict is modelled as CPython's insertion-ordered dict (3.7, 3.8: the   *)
(* interpreters that still have plistlib.readPlist): an entries array in   *)
(* which a deleted entry leaves a hole, and a count of the entries that    *)
(* can still be appended before the array is rebuilt without its holes.    *)
(* timerinterval_to_datetime adds and deletes keys of the dict it is       *)
(* iterating, which the language leaves undefined; what the loop visits    *)
(* is decided by this layout.  keysCheck distinguishes the two builds:     *)
(* CPython 3.8 raises RuntimeError when the iterator meets more keys than  *)
(* the dict had when the iteration began, CPython 3.7 does not.            *)
(***************************************************************************)
EXTENDS Integers, Sequences, FiniteSets, TLC

VARIABLES
    keysCheck,   \* the interpreter build: TRUE when dict iterators detect changed keys
    database,    \* the parsed document plistlib.readPlist returns (mutated in place)
    status,      \* "none" | "constructed" | "failed": the latest IPhoto(...) call
    err,         \* the exception the latest IPhoto(...) call raised, or "none"
    images,      \* self._images of the constructed model: image_id -> record
    albums,      \* self._albums of the constructed model (a dict)
    call,        \* the caller's latest call on the model: an album_data result, or the
                 \* generator albums() / photos() returned and how far it was consumed
    data,        \* the dict handed to timerinterval_to_datetime on its own
    data0,       \* that dict before the first call
    data1,       \* that dict after the first call
    nerr         \* what each call of timerinterval_to_datetime on data raised ("none" if nothing)

vars == <<keysCheck, database, status, err, images, albums, call,
          data, data0, data1, nerr>>

modelVars == <<database, status, err, images, albums, call>>

normVars == <<data, data0, data1, nerr>>

(***************************************************************************)
(* Bounds of the explored inputs.                                          *)
(***************************************************************************)
MaxKeys == 4

MaxKeyList == 2

MaxAlbums == 2

(***************************************************************************)
(* Strings                                                                 *)
(***************************************************************************)
Marker == <<"AsTimer", "Interval">>

RawTag == <<"OriginalPath">>

\* `sub in s`
Contains(s, sub) ==
    \E i \in 1..(Len(s) - Len(sub) + 1) : SubSeq(s, i, i + Len(sub) - 1) = sub

\* s.replace(sub, ''): the non-overlapping occurrences, leftmost first, are removed
RECURSIVE Remove(_, _)
Remove(s, sub) ==
    IF Len(s) < Len(sub) THEN s
    ELSE IF SubSeq(s, 1, Len(sub)) = sub
         THEN Remove(SubSeq(s, Len(sub) + 1, Len(s)), sub)
         ELSE <<Head(s)>> \o Remove(Tail(s), sub)

(***************************************************************************)
(* Values                                                                  *)
(***************************************************************************)
Float(n) == [t |-> "float", ordinal |-> 0, n |-> n, s |-> ""]

Text(s) == [t |-> "str", ordinal |-> 0, n |-> 0, s |-> s]

\* datetime.datetime(2001, 1, 1).toordinal()
EpochOrdinal == 730486

\* datetime.datetime(2001, 1, 1) + datetime.timedelta(seconds=seconds): the
\* timedelta is normalised to days and seconds of the day
convert_timer_interval(seconds) ==
    [t |-> "datetime",
     ordinal |-> EpochOrdinal + (seconds.n \div 86400),
     n |-> seconds.n % 86400,
     s |-> ""]

\* timedelta(seconds=x) raises TypeError unless x is a number
IsNumber(v) == v.t = "float"

(***************************************************************************)
(* dict                                                                    *)
(***************************************************************************)
Hole == [k |-> <<>>, v |-> Text(""), live |-> FALSE]

\* a new dict: a keys table of 8 slots, of which 5 are usable
EmptyDict == [entries |-> <<>>, usable |-> (2 * 8) \div 3]

Live(d) == {i \in 1..Len(d.entries) : d.entries[i].live}

\* len(d)
Used(d) == Cardinality(Live(d))

Keys(d) == {d.entries[i].k : i \in Live(d)}

IndexOf(d, key) == CHOOSE i \in Live(d) : d.entries[i].k = key

\* d[key]
GetItem(d, key) == d.entries[IndexOf(d, key)].v

\* the keys of d in iteration order
RECURSIVE KeySeqFrom(_, _)
KeySeqFrom(d, i) ==
    IF i > Len(d.entries) THEN <<>>
    ELSE IF d.entries[i].live THEN <<d.entries[i].k>> \o KeySeqFrom(d, i + 1)
         ELSE KeySeqFrom(d, i + 1)

KeySeq(d) == KeySeqFrom(d, 1)

\* the entries array rebuilt without its holes
RECURSIVE Compact(_)
Compact(es) ==
    IF es = <<>> THEN <<>>
    ELSE IF Head(es).live THEN <<Head(es)>> \o Compact(Tail(es))
         ELSE Compact(Tail(es))

\* the keys table size for `used` keys: the least power of two, at least 8,
\* that is not below 3 * used
RECURSIVE NewSize(_, _)
NewSize(size, minsize) == IF size >= minsize THEN size ELSE NewSize(2 * size, minsize)

Resize(d) ==
    [entries |-> Compact(d.entries),
     usable |-> ((2 * NewSize(8, 3 * Used(d))) \div 3) - Used(d)]

\* SetItem with the slip of keeping the value a key already has
SetItemKeepFirst(d, key, value) ==
    IF key \in Keys(d)
    THEN d
    ELSE LET r == IF d.usable <= 0 THEN Resize(d) ELSE d
         IN  [entries |-> Append(r.entries, [k |-> key, v |-> value, live |-> TRUE]),
              usable |-> r.usable - 1]

\* d[key] = value: an existing key keeps its place; a new key is appended, after
\* the table is rebuilt when no usable entry is left
SetItem(d, key, value) ==
    IF key \in Keys(d)
    THEN [d EXCEPT !.entries[IndexOf(d, key)].v = value]
    ELSE LET r == IF d.usable <= 0 THEN Resize(d) ELSE d
         IN  [entries |-> Append(r.entries, [k |-> key, v |-> value, live |-> TRUE]),
              usable |-> r.usable - 1]

\* del d[key]: the entry becomes a hole
DelItem(d, key) == [d EXCEPT !.entries[IndexOf(d, key)] = Hole]

\* the mapping a dict stands for
AsMap(d) == [key \in Keys(d) |-> GetItem(d, key)]

\* a dict built by assigning keys[1], keys[2], ... in turn (as plistlib and a
\* dict display do)
RECURSIVE MakeDict(_, _)
MakeDict(keys, vals) ==
    IF keys = <<>> THEN EmptyDict
    ELSE SetItem(MakeDict(SubSeq(keys, 1, Len(keys) - 1), SubSeq(vals, 1, Len(vals) - 1)),
                 keys[Len(keys)], vals[Len(vals)])

(***************************************************************************)
(* timerinterval_to_datetime                                               *)
(***************************************************************************)
\* the first live entry at or after position i (Len + 1 when there is none)
RECURSIVE NextLive(_, _)
NextLive(d, i) ==
    IF i > Len(d.entries) THEN i
    ELSE IF d.entries[i].live THEN i ELSE NextLive(d, i + 1)

\* `for key in data:` from iterator position pos, the iterator having been made
\* when the dict had di_used keys, with di_len keys still expected.  The result
\* is the dict as the loop leaves it and the exception that ended it, if any.
RECURSIVE Loop(_, _, _, _, _)
Loop(d, pos, di_used, di_len, check) ==
    IF di_used # Used(d)
    THEN [data |-> d, err |-> "RuntimeError"]   \* changed size during iteration
    ELSE LET i == NextLive(d, pos) IN
         IF i > Len(d.entries)
         THEN [data |-> d, err |-> "none"]
         ELSE IF check /\ di_len = 0
         THEN [data |-> d, err |-> "RuntimeError"]   \* keys changed during iteration
         ELSE LET key == d.entries[i].k IN
              IF Contains(key, Marker)
              THEN IF ~IsNumber(d.entries[i].v)
                   THEN [data |-> d, err |-> "TypeError"]
                   ELSE Loop(DelItem(SetItem(d, Remove(key, Marker),
                                             convert_timer_interval(d.entries[i].v)),
                                     key),
                             i + 1, di_used, di_len - 1, check)
              ELSE Loop(d, i + 1, di_used, di_len - 1, check)

timerinterval_to_datetime(d, check) == Loop(d, 1, Used(d), Used(d), check)

(***************************************************************************)
(* The normalizer on its own: a record, and timerinterval_to_datetime      *)
(* applied to it once and then once more.                                  *)
(***************************************************************************)
DateRaw == <<"Date", "AsTimer", "Interval">>

DateGMTRaw == <<"Date", "AsTimer", "Interval", "GMT">>

MetaModDateRaw == <<"Meta", "Mod", "Date", "AsTimer", "Interval">>

ModDateRaw == <<"Mod", "Date", "AsTimer", "Interval">>

BareRaw == <<"AsTimer", "Interval">>

NestedRaw == <<"AsTimer", "AsTimer", "Interval", "Interval">>

\* the field names the records are built from
NormKeys ==
    {DateRaw, DateGMTRaw, MetaModDateRaw, ModDateRaw, BareRaw, NestedRaw,
     <<"Date">>, <<"Caption">>}

\* the value a field of an input record holds: seconds since 2001-01-01 under a
\* timer-interval name, text under any other
SampleValue(key) ==
    CASE key = DateRaw -> Float(360962921)
      [] key = DateGMTRaw -> Float(360948521)
      [] key = MetaModDateRaw -> Float(409536614)
      [] key = ModDateRaw -> Float(377914153)
      [] key = BareRaw -> Float(0)
      [] key = NestedRaw -> Float(86399)
      [] OTHER -> Text("text")

\* the sequences of at most n distinct elements of S
DistinctSeqs(S, n) ==
    {q \in UNION {[1..m -> S] : m \in 0..n} :
        \A i, j \in 1..Len(q) : i # j => q[i] # q[j]}

RecordOf(keys) == MakeDict(keys, [i \in 1..Len(keys) |-> SampleValue(keys[i])])

NoCall == [kind |-> "none", album |-> <<>>, raw |-> FALSE, pos |-> 0, out |-> <<>>,
           state |-> "done"]

NoModel ==
    /\ database = [images |-> <<>>, albums |-> <<>>]
    /\ status = "none"
    /\ err = "none"
    /\ images = <<>>
    /\ albums = EmptyDict
    /\ call = NoCall

InitNorm ==
    /\ keysCheck \in BOOLEAN
    /\ data \in {RecordOf(keys) : keys \in DistinctSeqs(NormKeys, MaxKeys)}
    /\ data0 = data
    /\ data1 = data
    /\ nerr = <<>>
    /\ NoModel

\* timerinterval_to_datetime(data)
Normalize ==
    /\ Len(nerr) = 0
    /\ LET r == timerinterval_to_datetime(data, keysCheck)
       IN  /\ data' = r.data
           /\ data1' = r.data
           /\ nerr' = <<r.err>>
    /\ UNCHANGED <<keysCheck, data0, modelVars>>

\* timerinterval_to_datetime(data) once more, on what the first call left
NormalizeAgain ==
    /\ Len(nerr) = 1
    /\ LET r == timerinterval_to_datetime(data, keysCheck)
       IN  /\ data' = r.data
           /\ nerr' = Append(nerr, r.err)
    /\ UNCHANGED <<keysCheck, data0, data1, modelVars>>

NextNorm == Normalize \/ NormalizeAgain

SpecNorm == InitNorm /\ [][NextNorm]_vars

(***************************************************************************)
(* The parsed document                                                     *)
(***************************************************************************)
Id1 == <<"1">>

Id2 == <<"2">>

\* an image-id in which the text OriginalPath occurs
IdOdd == <<"3", "OriginalPath">>

\* the image-ids of the documents whose image records vary
ImageIds == <<Id1, IdOdd>>

Album1 == <<"album1">>

Album2 == <<"album2">>

\* the field lists of the image records of the explored documents: a plain
\* record, a RAW one, one timer field, and the four timer fields of
\* test_timerinterval_to_datetime
DocRecordKeys ==
    {<<<<"Caption">>>>,
     <<<<"Caption">>, <<"OriginalPath">>>>,
     <<DateRaw, <<"Caption">>>>,
     <<DateRaw, DateGMTRaw, MetaModDateRaw, ModDateRaw>>}

\* the sequences over S of length at most n
SeqsUpTo(S, n) == UNION {[1..m -> S] : m \in 0..n}

RECURSIVE Flatten(_)
Flatten(ss) == IF ss = <<>> THEN <<>> ELSE Head(ss) \o Flatten(Tail(ss))

\* "Master Image List": for each image-id of ImageIds, no entry or a record
MasterLists ==
    {Flatten([i \in 1..Len(ImageIds) |->
                 IF pick[i] = <<>> THEN <<>>
                 ELSE <<[id |-> ImageIds[i], rec |-> RecordOf(pick[i])]>>]) :
        pick \in [1..Len(ImageIds) -> DocRecordKeys \cup {<<>>}]}

AlbumEntry(name, keylist, count, id) ==
    [AlbumName |-> name, KeyList |-> keylist, PhotoCount |-> count, AlbumId |-> id]

\* documents with one album over any image records: what photos() meets
PhotoDocs ==
    {[images |-> m, albums |-> <<AlbumEntry(Album1, kl, Len(kl), 1)>>] :
        m \in MasterLists,
        kl \in SeqsUpTo({ImageIds[i] : i \in 1..Len(ImageIds)}, MaxKeyList)}

PlainMaster ==
    <<[id |-> Id1, rec |-> RecordOf(<<<<"Caption">>>>)],
      [id |-> Id2, rec |-> RecordOf(<<<<"Caption">>>>)]>>

\* the KeyList <<"1", "2", "1", ...>> of length n
CycleKeyList(n) == [i \in 1..n |-> IF i % 2 = 1 THEN Id1 ELSE Id2]

\* documents with any list of albums, whose PhotoCount may disagree with the
\* KeyList, over two plain images: what the album loop of __init__ meets
AlbumDocs ==
    {[images |-> PlainMaster,
      albums |-> [i \in 1..Len(as) |->
                     AlbumEntry(as[i][1], CycleKeyList(as[i][2]), as[i][2] + as[i][3], i)]] :
        as \in SeqsUpTo({Album1, Album2} \X (0..MaxKeyList) \X {0, 1}, MaxAlbums)}

NoNorm ==
    /\ data = EmptyDict
    /\ data0 = EmptyDict
    /\ data1 = EmptyDict
    /\ nerr = <<>>

Init ==
    /\ keysCheck \in BOOLEAN
    /\ database \in PhotoDocs \cup AlbumDocs
    /\ status = "none"
    /\ err = "none"
    /\ images = EmptyDict
    /\ albums = EmptyDict
    /\ call = NoCall
    /\ NoNorm

(***************************************************************************)
(* IPhoto.__init__                                                         *)
(***************************************************************************)
\* for image_id in master_image_list:
\*     self._images[image_id] = timerinterval_to_datetime(master_image_list[image_id])
\* from entry i on: the document as the loop leaves it (the records are
\* converted in place), self._images, and the exception that ended it, if any
RECURSIVE LoadImages(_, _, _, _)
LoadImages(master, i, imgs, check) ==
    IF i > Len(master) THEN [master |-> master, images |-> imgs, err |-> "none"]
    ELSE LET r == timerinterval_to_datetime(master[i].rec, check)
             m == [master EXCEPT ![i].rec = r.data]
         IN  IF r.err # "none" THEN [master |-> m, images |-> imgs, err |-> r.err]
             ELSE LoadImages(m, i + 1, SetItem(imgs, master[i].id, r.data), check)

\* LoadAlbums with the slip of passing over an album whose PhotoCount is wrong
RECURSIVE LoadAlbumsSkipBad(_, _, _)
LoadAlbumsSkipBad(list, i, albs) ==
    IF i > Len(list) THEN [albums |-> albs, err |-> "none"]
    ELSE IF list[i].PhotoCount # Len(list[i].KeyList)
         THEN LoadAlbumsSkipBad(list, i + 1, albs)
         ELSE LoadAlbumsSkipBad(list, i + 1,
                                SetItem(albs, list[i].AlbumName,
                                        [photos |-> list[i].KeyList,
                                         count |-> list[i].PhotoCount,
                                         id |-> list[i].AlbumId]))

\* for album in database['List of Albums']: ... from entry i on
RECURSIVE LoadAlbums(_, _, _)
LoadAlbums(list, i, albs) ==
    IF i > Len(list) THEN [albums |-> albs, err |-> "none"]
    ELSE IF list[i].PhotoCount # Len(list[i].KeyList)
         THEN [albums |-> albs, err |-> "ValueError"]
         ELSE LoadAlbums(list, i + 1,
                         SetItem(albs, list[i].AlbumName,
                                 [photos |-> list[i].KeyList,
                                  count |-> list[i].PhotoCount,
                                  id |-> list[i].AlbumId]))

\* IPhoto(): the caller gets the model, or the exception and no object.  The
\* document outlives the call (the tests construct IPhoto() anew from one
\* MOCK_DATABASE before every test), so IPhoto() can be called on it again.
Load ==
    /\ LET ri == LoadImages(database.images, 1, EmptyDict, keysCheck)
           ra == LoadAlbums(database.albums, 1, EmptyDict)
           e  == IF ri.err # "none" THEN ri.err ELSE ra.err
       IN  /\ database' = [database EXCEPT !.images = ri.master]
           /\ err' = e
           /\ status' = IF e = "none" THEN "constructed" ELSE "failed"
           /\ images' = IF e = "none" THEN ri.images ELSE EmptyDict
           /\ albums' = IF e = "none" THEN ra.albums ELSE EmptyDict
    /\ call' = NoCall
    /\ UNCHANGED <<keysCheck, normVars>>

(***************************************************************************)
(* IPhoto.albums, IPhoto.album_data, IPhoto.photos                         *)
(***************************************************************************)
\* the album names a caller asks for
QueryNames == {Album1, Album2, <<"nosuch">>}

\* iphoto.album_data(name): self._albums[album_name]
AlbumData(name) ==
    /\ status = "constructed"
    /\ call' = IF name \in Keys(albums)
               THEN [NoCall EXCEPT !.kind = "album_data", !.album = name,
                                   !.out = <<GetItem(albums, name)>>]
               ELSE [NoCall EXCEPT !.kind = "album_data", !.album = name,
                                   !.state = "KeyError"]
    /\ UNCHANGED <<keysCheck, database, status, err, images, albums, normVars>>

\* iphoto.albums(): a generator object; no line of the body has run
AlbumsCall ==
    /\ status = "constructed"
    /\ call' = [NoCall EXCEPT !.kind = "albums", !.state = "created"]
    /\ UNCHANGED <<keysCheck, database, status, err, images, albums, normVars>>

\* iphoto.photos(album, include_raw_photos): a generator object
PhotosCall(name, include_raw_photos) ==
    /\ status = "constructed"
    /\ call' = [NoCall EXCEPT !.kind = "photos", !.album = name,
                              !.raw = include_raw_photos, !.state = "created"]
    /\ UNCHANGED <<keysCheck, database, status, err, images, albums, normVars>>

\* next() on the albums() generator: for album in self._albums: yield album
AlbumsNext ==
    LET names == KeySeq(albums) IN
    IF call.pos >= Len(names)
    THEN [call EXCEPT !.state = "done"]
    ELSE [call EXCEPT !.state = "running", !.pos = call.pos + 1,
                      !.out = Append(call.out, names[call.pos + 1])]

\* Skipped with the slip of ignoring include_raw_photos
SkippedAlways(photo, include_raw_photos) == Contains(photo, RawTag)

\* the photo the body of photos() skips with `continue`
Skipped(photo, include_raw_photos) ==
    Contains(photo, RawTag) /\ include_raw_photos = FALSE

\* the first position after pos of the album's list that is not skipped
\* (Len + 1 when there is none)
RECURSIVE NextYield(_, _, _)
NextYield(photos, pos, include_raw_photos) ==
    IF pos + 1 > Len(photos) THEN pos + 1
    ELSE IF Skipped(photos[pos + 1], include_raw_photos)
         THEN NextYield(photos, pos + 1, include_raw_photos)
         ELSE pos + 1

\* PhotosNext with the slip of treating an unknown album as an empty one
PhotosNextEmpty ==
    IF call.album \notin Keys(albums)
    THEN [call EXCEPT !.state = "done"]
    ELSE LET photos == GetItem(albums, call.album).photos
             j == NextYield(photos, call.pos, call.raw)
         IN  IF j > Len(photos)
             THEN [call EXCEPT !.state = "done", !.pos = Len(photos)]
             ELSE IF photos[j] \notin Keys(images)
             THEN [call EXCEPT !.state = "KeyError", !.pos = j]
             ELSE [call EXCEPT !.state = "running", !.pos = j,
                               !.out = Append(call.out, GetItem(images, photos[j]))]

\* next() on the photos() generator: the body runs to its next yield, to its
\* end, or to the KeyError of self._albums[album_name] or self._images[photo]
PhotosNext ==
    IF call.album \notin Keys(albums)
    THEN [call EXCEPT !.state = "KeyError"]
    ELSE LET photos == GetItem(albums, call.album).photos
             j == NextYield(photos, call.pos, call.raw)
         IN  IF j > Len(photos)
             THEN [call EXCEPT !.state = "done", !.pos = Len(photos)]
             ELSE IF photos[j] \notin Keys(images)
             THEN [call EXCEPT !.state = "KeyError", !.pos = j]
             ELSE [call EXCEPT !.state = "running", !.pos = j,
                               !.out = Append(call.out, GetItem(images, photos[j]))]

\* GenNext with the slip of a photos() generator that takes the photos it
\* yields off the album's stored list
GenNextConsuming ==
    /\ status = "constructed"
    /\ call.state \in {"created", "running"}
    /\ call' = IF call.kind = "albums" THEN AlbumsNext ELSE PhotosNext
    /\ albums' = IF call.kind = "photos" /\ call.album \in Keys(albums)
                    /\ GetItem(albums, call.album).photos # <<>>
                 THEN SetItem(albums, call.album,
                              [GetItem(albums, call.album) EXCEPT !.photos = Tail(@)])
                 ELSE albums
    /\ UNCHANGED <<keysCheck, database, status, err, images, normVars>>

\* next() on the generator the caller holds
GenNext ==
    /\ status = "constructed"
    /\ call.state \in {"created", "running"}
    /\ call' = IF call.kind = "albums" THEN AlbumsNext ELSE PhotosNext
    /\ UNCHANGED <<keysCheck, database, status, err, images, albums, normVars>>

Next ==
    \/ Load
    \/ \E name \in QueryNames : AlbumData(name)
    \/ AlbumsCall
    \/ \E name \in QueryNames, include_raw_photos \in BOOLEAN :
          PhotosCall(name, include_raw_photos)
    \/ GenNext

Spec == Init /\ [][Next]_vars

(***************************************************************************)
(* Properties                                                              *)
(***************************************************************************)
\* the photo list of the album a photos() call names (the album exists)
CallPhotos == GetItem(albums, call.album).photos

PhotosCallOnAlbum == call.kind = "photos" /\ call.album \in Keys(albums)

\* image records that hold the field OriginalPath
IsRawRecord(rec) == RawTag \in Keys(rec)

\* the records of the photos of a list, without those a caller who excludes
\* RAW photos is not to get
RECURSIVE ExpectedPhotos(_, _)
ExpectedPhotos(photos, include_raw) ==
    IF photos = <<>> THEN <<>>
    ELSE LET rec == GetItem(images, Head(photos))
         IN  (IF ~include_raw /\ IsRawRecord(rec) THEN <<>> ELSE <<rec>>)
             \o ExpectedPhotos(Tail(photos), include_raw)

AllResolve(photos) == \A i \in 1..Len(photos) : photos[i] \in Keys(images)

OrdinaryIds(photos) == \A i \in 1..Len(photos) : ~Contains(photos[i], RawTag)

\* C1: photos(album, include_raw_photos=False), consumed to its end, has yielded
\* exactly the records without an OriginalPath field, in order, and with
\* include_raw_photos=True every record.  Stated for the albums whose ids all
\* resolve and are ordinary ids (the text OriginalPath occurs in none of them).
C1_OmitsRawRecords ==
    (PhotosCallOnAlbum /\ call.state = "done" /\ AllResolve(CallPhotos)
        /\ OrdinaryIds(CallPhotos))
        => call.out = ExpectedPhotos(CallPhotos, call.raw)

\* the field names and values timerinterval_to_datetime is to leave for a
\* record m (a mapping): each timer field renamed and converted, the rest kept
Renamed(key) == IF Contains(key, Marker) THEN Remove(key, Marker) ELSE key

IsReferencePlus(v, seconds) ==
    /\ v.t = "datetime"
    /\ v.n \in 0..86399
    /\ (v.ordinal - 730486) * 86400 + v.n = seconds.n

NormalizedFrom(after, before) ==
    /\ DOMAIN after = {Renamed(key) : key \in DOMAIN before}
    /\ \A key \in DOMAIN before :
          IF Contains(key, Marker)
          THEN IsReferencePlus(after[Renamed(key)], before[key])
          ELSE after[key] = before[key]

\* records of the documented fields only: the four timer fields and Caption (no
\* field whose new name is taken or is again a timer-field name)
DocumentedFields(d) ==
    Keys(d) \subseteq {DateRaw, DateGMTRaw, MetaModDateRaw, ModDateRaw, <<"Caption">>}

\* C2: timerinterval_to_datetime applied to a record returns the record with
\* every key containing AsTimerInterval replaced by the key without it, holding
\* 2001-01-01T00:00:00 plus the original seconds, and every other key unchanged.
\* Stated for the records of the documented fields.
C2_RenamesEveryTimerField ==
    (Len(nerr) >= 1 /\ DocumentedFields(data0))
        => (nerr[1] = "none" /\ NormalizedFrom(AsMap(data1), AsMap(data0)))

\* C3: no image record of a constructed model has a key containing
\* AsTimerInterval, and every image-id of the document has a record.
C3_NoTimerKeyStored ==
    status = "constructed" =>
        /\ Keys(images) = {database.images[i].id : i \in 1..Len(database.images)}
        /\ \A id \in Keys(images) :
              \A key \in Keys(GetItem(images, id)) : ~Contains(key, Marker)

BadAlbum(entry) == entry.PhotoCount # Len(entry.KeyList)

HasBadAlbum == \E i \in 1..Len(database.albums) : BadAlbum(database.albums[i])

C5_YieldsStoredRecordsInOrder ==
    (PhotosCallOnAlbum /\ call.raw) =>
        /\ Len(call.out) <= Len(CallPhotos)
        /\ \A i \in 1..Len(call.out) :
              /\ CallPhotos[i] \in Keys(images)
              /\ call.out[i] = GetItem(images, CallPhotos[i])
        /\ call.state = "running" => Len(call.out) = call.pos
        /\ call.state = "done" =>
              /\ Len(call.out) = Len(CallPhotos)
              /\ Len(call.out) = GetItem(albums, call.album).count

C5_Witness ==
    /\ PhotosCallOnAlbum /\ call.raw /\ call.state = "done"
    /\ CallPhotos = <<IdOdd, IdOdd>>
    /\ Len(call.out) = 2

\* C6: photos() on an album that lists an image-id without a record never
\* comes to its end: it raises KeyError, whatever include_raw_photos is.
C6_DanglingIdRaises ==
    (PhotosCallOnAlbum /\ ~AllResolve(CallPhotos)) => call.state # "done"

\* C7: album_data and photos on a name that is no album raise KeyError
\* (photos when its generator is first advanced) and yield nothing.
C7_UnknownAlbumRaises ==
    (call.kind \in {"album_data", "photos"} /\ status = "constructed"
        /\ call.album \notin Keys(albums) /\ call.state # "created")
        => (call.state = "KeyError" /\ call.out = <<>>)

C7_Witness ==
    /\ call.kind = "photos" /\ call.state = "KeyError"
    /\ call.album = Album2
    /\ Keys(albums) = {Album1}

\* the album names of the first i entries of a list, each once, in the order
\* of their first entry
RECURSIVE FirstSeen(_, _)
FirstSeen(list, i) ==
    IF i = 0 THEN <<>>
    ELSE LET before == FirstSeen(list, i - 1)
         IN  IF \E j \in 1..Len(before) : before[j] = list[i].AlbumName
             THEN before
             ELSE Append(before, list[i].AlbumName)

LastEntry(list, name) ==
    list[CHOOSE i \in 1..Len(list) :
            /\ list[i].AlbumName = name
            /\ \A j \in (i + 1)..Len(list) : list[j].AlbumName # name]

\* C8: albums() consumed to its end has yielded each distinct AlbumName of the
\* document once, in the order of first appearance, and album_data(name)
\* returns photos, count and id of the last entry of that name.
C8_AlbumsLastWriteWins ==
    /\ (call.kind = "albums" /\ call.state = "done") =>
          call.out = FirstSeen(database.albums, Len(database.albums))
    /\ (call.kind = "album_data" /\ call.state = "done") =>
          LET e == LastEntry(database.albums, call.album)
          IN  call.out = <<[photos |-> e.KeyList, count |-> e.PhotoCount, id |-> e.AlbumId]>>

C8_Witness ==
    /\ call.kind = "album_data" /\ call.state = "done"
    /\ Len(database.albums) = 2
    /\ database.albums[1].AlbumName = database.albums[2].AlbumName
    /\ database.albums[1].KeyList # database.albums[2].KeyList
    /\ call.out[1].id = 2

\* C9: when timerinterval_to_datetime has returned, applying it to its result
\* raises nothing and changes nothing, its result holding no timer-field name.
\* Stated for the records of the documented fields.
C9_SecondCallIsNoOp ==
    (Len(nerr) >= 1 /\ nerr[1] = "none" /\ DocumentedFields(data0)) =>
        /\ \A key \in Keys(data1) : ~Contains(key, Marker)
        /\ Len(nerr) = 2 => (nerr[2] = "none" /\ data = data1)

\* C10: no albums, album_data or photos call, nor any step of their generators
\* (the steps that leave the caller with a call, call'.kind # "none"; IPhoto()
\* leaves none), changes self._images, self._albums or the document, and a
\* call starts from the beginning whatever the call before it has consumed.
C10_QueriesChangeNothing ==
    [][(status = "constructed" /\ call'.kind # "none") =>
          /\ images' = images /\ albums' = albums /\ database' = database
          /\ status' = status
          /\ call'.state = "created" => (call'.pos = 0 /\ call'.out = <<>>)]_vars

C10_Witness ==
    /\ call.kind = "photos" /\ call.state = "KeyError"
    /\ Len(call.out) >= 1

====
